---- MODULE Spec2Model ----
(***************************************************************************)
(* Model of the password-protected keystore of quantos-sdk (src/kp.go):    *)
(* KeyPairInfo (one key record), AccountInfo (role label -> key record)    *)
(* and FileAccountStore (one file per account name, backup on overwrite).  *)
(*                                                                         *)
(* Byte strings are sequences over 0..255.  A text (Go string holding a    *)
(* base58 value) is a sequence of alphabet positions 0..57; the value 58   *)
(* stands for any character outside the base58 alphabet.  The empty Go     *)
(* string is the empty sequence.                                           *)
(***************************************************************************)
EXTENDS Integers, Sequences, FiniteSets, TLC

VARIABLES kp, hist, acct, alast, fs, clock, saved, slast, race

vars == <<kp, hist, acct, alast, fs, clock, saved, slast, race>>

----------------------------------------------------------------------------
(* Sizes.  The source uses a 48-byte salt (32 bytes KDF salt, 16 bytes     *)
(* CTR nonce), 32 bytes of derived key (16 cipher key, 16 MAC key) and a   *)
(* 32-byte hash; the model keeps the layout at reduced lengths.            *)

KdfSaltLen == 4
NonceLen == 2
SaltLen == KdfSaltLen + NonceLen
CipherKeyLen == 2
MacKeyLen == 2
KeyLen == CipherKeyLen + MacKeyLen
HashLen == 8

MaxOps == 4
MaxSaves == 3
MaxFailedSaves == 1
MaxClock == 1

ByteRadix == 256
B58Radix == 58
InvalidChar == B58Radix

----------------------------------------------------------------------------
(* Byte-string helpers *)

Zeros(n) == [i \in 1..n |-> 0]

RECURSIVE LeadingZeros(_)
LeadingZeros(s) ==
  IF s = <<>> \/ Head(s) # 0 THEN 0 ELSE 1 + LeadingZeros(Tail(s))

RECURSIVE StripZeros(_)
StripZeros(s) == IF s = <<>> \/ Head(s) # 0 THEN s ELSE StripZeros(Tail(s))

\* remainder of the big-endian numeral s[1..i] (radix from) divided by d
RECURSIVE DivRem(_, _, _, _)
DivRem(s, i, from, d) ==
  IF i = 0 THEN 0 ELSE (DivRem(s, i - 1, from, d) * from + s[i]) % d

\* quotient digits of the big-endian numeral s (radix from) divided by d
DivQuo(s, from, d) ==
  [i \in 1..Len(s) |-> (DivRem(s, i - 1, from, d) * from + s[i]) \div d]

\* radix conversion of a numeral without leading zeros, by repeated division
RECURSIVE ConvertRadix(_, _, _, _)
ConvertRadix(s, from, to, out) ==
  IF s = <<>> THEN out
  ELSE ConvertRadix(StripZeros(DivQuo(s, from, to)), from, to,
                    <<DivRem(s, Len(s), from, to)>> \o out)

\* common.EncodeBase58: one leading '1' (position 0) per leading zero byte,
\* then the big-endian number in radix 58
EncodeBase58(b) ==
  Zeros(LeadingZeros(b)) \o ConvertRadix(StripZeros(b), ByteRadix, B58Radix, <<>>)

\* common.DecodeBase58: a character outside the alphabet yields no bytes
DecodeBase58(s) ==
  IF \E i \in 1..Len(s) : s[i] >= B58Radix THEN <<>>
  ELSE Zeros(LeadingZeros(s)) \o ConvertRadix(StripZeros(s), B58Radix, ByteRadix, <<>>)

RECURSIVE XorBits(_, _, _)
XorBits(a, b, n) ==
  IF n = 0 THEN 0
  ELSE ((a + b) % 2) + 2 * XorBits(a \div 2, b \div 2, n - 1)

XorByte(a, b) == XorBits(a, b, 8)

----------------------------------------------------------------------------
(* Cipher engine.  scrypt, AES-CTR and SHA3 are idealised: the derived key *)
(* is a deterministic function of password and KDF salt that differs at    *)
(* every byte for the passwords of the model, the key stream is a          *)
(* deterministic function of cipher key and nonce, and the hash is         *)
(* collision-free on the inputs of the model.                              *)

RECURSIVE PwFold(_)
PwFold(pw) ==
  IF pw = <<>> THEN 7
  ELSE (PwFold(SubSeq(pw, 1, Len(pw) - 1)) * 31 + pw[Len(pw)] + 1) % ByteRadix

\* scrypt.Key(password, salt, 32768, 8, 1, keyLen)
ScryptKey(password, salt, keyLen) ==
  [i \in 1..keyLen |->
     (PwFold(password) * (2 * i + 1) + salt[((i - 1) % Len(salt)) + 1] + i) % ByteRadix]

\* cipher.NewCTR(aes.NewCipher(key), iv).XORKeyStream(out, in)
KeyStreamByte(key, iv, i) ==
  (key[((i - 1) % Len(key)) + 1] * 3
     + (IF iv = <<>> THEN 0 ELSE iv[((i - 1) % Len(iv)) + 1])
     + 17 * i) % ByteRadix

XORKeyStream(key, iv, inText) ==
  [i \in 1..Len(inText) |-> XorByte(inText[i], KeyStreamByte(key, iv, i))]

\* a hash that covers only the MAC key, not the ciphertext after it
Sha3KeyOnly(data) ==
  [i \in 1..HashLen |->
     IF i - 1 <= MacKeyLen /\ i - 1 <= Len(data) /\ i > 1
     THEN (data[i - 1] + 73 * i) % ByteRadix
     ELSE (92 + i) % ByteRadix]

\* common.Sha3
Sha3(data) ==
  [i \in 1..HashLen |->
     IF i = 1 THEN Len(data) % ByteRadix
     ELSE IF i - 1 <= Len(data) THEN (data[i - 1] + 73 * i) % ByteRadix
     ELSE (92 + i) % ByteRadix]

----------------------------------------------------------------------------
(* Inputs *)

NoKp == [nil |-> TRUE]

RawKeys == { <<>>, <<0, 5>>, <<33, 7>>, <<InvalidChar>> }
Passwords == { <<>>, <<1>>, <<2, 1>> }
KeyTypes == { "ed25519" }
UUIDs == { "u1", "u2" }
SaltSeeds == { 0, 3 }

\* frand.Read(salt[0:32]): the random part of the salt
KdfSalt(seed) == [i \in 1..KdfSaltLen |-> (seed * 7 + seed * (i - 1) * 41) % ByteRadix]
\* the nonce part of a salt found in a keystore file
FileNonce(seed) == [i \in 1..NonceLen |-> (seed * 67 + seed * i) % ByteRadix]

----------------------------------------------------------------------------
(* External key-pair generator *)

\* account2.NewKeyPair(id): deterministic in id
NewKeyPair(id) == [Priv |-> <<"priv", id>>, Pub |-> <<"pub", id>>]

\* pub.MarshalBinary()
MarshalBinary(pub) == IF pub[2] = "u1" THEN <<0, 17>> ELSE <<201, 3>>

----------------------------------------------------------------------------
(* Key record: KeyPairInfo *)

KeyPairInfo(id, rawKey, keyType, pubKey, salt, encryptedKey, mac) ==
  [ID |-> id, RawKey |-> rawKey, KeyType |-> keyType, PubKey |-> pubKey,
   Salt |-> salt, EncryptedKey |-> encryptedKey, Mac |-> mac]

NewKeyPairInfo(rawKey, keyType, id) ==
  IF rawKey = <<>> THEN [rec |-> NoKp, err |-> "empty key"]
  ELSE [rec |-> KeyPairInfo(id, rawKey, keyType,
                            EncodeBase58(MarshalBinary(NewKeyPair(id).Pub)),
                            <<>>, <<>>, <<>>),
        err |-> "nil"]

\* a reconstruction that never looks at the raw key
ToKeyPairNoGuard(k) ==
  [keys |-> [Priv |-> NewKeyPair(k.ID).Priv, Pub |-> NewKeyPair(k.ID).Pub,
             PubKeySign |-> NoKp],
   err |-> "nil"]

ToKeyPair(k) ==
  IF k.RawKey = <<>> THEN [keys |-> NoKp, err |-> "empty keypair"]
  ELSE [keys |-> [Priv |-> NewKeyPair(k.ID).Priv, Pub |-> NewKeyPair(k.ID).Pub,
                  PubKeySign |-> NoKp],
        err |-> "nil"]

\* a guard that looks at the ciphertext only
KpIsEncryptedCipherOnly(k) == k.EncryptedKey # <<>>

KpIsEncrypted(k) == k.EncryptedKey # <<>> \/ k.RawKey = <<>>

\* kdfSalt is what frand.Read delivers; salt[32:48] stays zero
KpEncrypt(k, password, kdfSalt) ==
  IF KpIsEncrypted(k) THEN [rec |-> k, err |-> "already encrypted"]
  ELSE LET salt == kdfSalt \o Zeros(NonceLen)
           key == ScryptKey(password, SubSeq(salt, 1, KdfSaltLen), KeyLen)
           inText == DecodeBase58(k.RawKey)
           outText == XORKeyStream(SubSeq(key, 1, CipherKeyLen),
                                   SubSeq(salt, KdfSaltLen + 1, SaltLen), inText)
           mac == Sha3(SubSeq(key, CipherKeyLen + 1, KeyLen) \o outText)
       IN [rec |-> [k EXCEPT !.Salt = EncodeBase58(salt),
                             !.Mac = EncodeBase58(mac),
                             !.RawKey = <<>>],
           err |-> "nil"]

\* a Decrypt that stores the decryption without verifying the MAC
KpDecryptNoMacCheck(k, password) ==
  IF ~KpIsEncrypted(k) THEN [rec |-> k, err |-> "not encrypted"]
  ELSE LET salt == DecodeBase58(k.Salt)
           key == ScryptKey(password, SubSeq(salt, 1, KdfSaltLen), KeyLen)
           outText == XORKeyStream(SubSeq(key, 1, CipherKeyLen),
                                   SubSeq(salt, KdfSaltLen + 1, SaltLen),
                                   DecodeBase58(k.EncryptedKey))
       IN [rec |-> [k EXCEPT !.RawKey = EncodeBase58(outText)], err |-> "nil"]

KpDecrypt(k, password) ==
  IF ~KpIsEncrypted(k) THEN [rec |-> k, err |-> "not encrypted"]
  ELSE LET salt == DecodeBase58(k.Salt)
       IN IF Len(salt) < SaltLen THEN [rec |-> k, err |-> "panic"]
          ELSE LET key == ScryptKey(password, SubSeq(salt, 1, KdfSaltLen), KeyLen)
                   inText == DecodeBase58(k.EncryptedKey)
                   outText == XORKeyStream(SubSeq(key, 1, CipherKeyLen),
                                           SubSeq(salt, KdfSaltLen + 1, SaltLen), inText)
                   mac == Sha3(SubSeq(key, CipherKeyLen + 1, KeyLen) \o inText)
               IN IF mac # DecodeBase58(k.Mac)
                  THEN [rec |-> k, err |-> "wrong password"]
                  ELSE [rec |-> [k EXCEPT !.RawKey = EncodeBase58(outText)],
                        err |-> "nil"]

\* A key record as a keystore file written by the reference cipher engine
\* holds it: ciphertext, salt and mac present, raw key absent.
SealedKeyPairInfo(id, rawKey, keyType, password, salt) ==
  LET key == ScryptKey(password, SubSeq(salt, 1, KdfSaltLen), KeyLen)
      outText == XORKeyStream(SubSeq(key, 1, CipherKeyLen),
                              SubSeq(salt, KdfSaltLen + 1, SaltLen),
                              DecodeBase58(rawKey))
      mac == Sha3(SubSeq(key, CipherKeyLen + 1, KeyLen) \o outText)
  IN KeyPairInfo(id, <<>>, keyType,
                 EncodeBase58(MarshalBinary(NewKeyPair(id).Pub)),
                 EncodeBase58(salt), EncodeBase58(outText), EncodeBase58(mac))

\* salt[0:32] and salt[32:48] on a decoded salt that is too short do not
\* panic when the slice DecodeBase58 returned has spare capacity: the bytes
\* read past its length are whatever the capacity holds (spare).
KpDecryptSpare(k, password, spare) ==
  LET salt == DecodeBase58(k.Salt)
      padded == salt \o [i \in 1..(SaltLen - Len(salt)) |-> spare]
      r == KpDecrypt([k EXCEPT !.Salt = EncodeBase58(padded)], password)
  IN [rec |-> [r.rec EXCEPT !.Salt = k.Salt], err |-> r.err]

\* salt texts of a keystore file that do not decode to SaltLen bytes:
\* absent, one byte short, garbled, one byte long
MalformedSalts(salt) ==
  { <<>>,
    EncodeBase58(SubSeq(salt, 1, SaltLen - 1)),
    <<InvalidChar>>,
    EncodeBase58(salt \o <<9>>) }

SpareBytes == { 0, 170 }

----------------------------------------------------------------------------
(* Key record operations as steps.  hist is the sequence of calls made on  *)
(* the record kp since it came into being: op, argument, error returned    *)
(* and the record after the call.                                          *)

Call(op, arg, err, after) == [op |-> op, arg |-> arg, err |-> err, after |-> after]

Before(i) == IF i = 1 THEN NoKp ELSE hist[i - 1].after

KeyFrame == UNCHANGED <<acct, alast, fs, clock, saved, slast, race>>

KeyNew ==
  /\ hist = <<>>
  /\ \E rawKey \in RawKeys, keyType \in KeyTypes, id \in UUIDs :
       LET r == NewKeyPairInfo(rawKey, keyType, id)
       IN /\ kp' = r.rec
          /\ hist' = <<Call("New", rawKey, r.err, r.rec)>>
  /\ KeyFrame

\* LoadAccountFrom delivers a record in encrypted state
KeyLoad ==
  /\ hist = <<>>
  /\ \E rawKey \in RawKeys \ {<<>>}, keyType \in KeyTypes, id \in UUIDs,
        pw \in Passwords, seed \in SaltSeeds :
       LET k == SealedKeyPairInfo(id, rawKey, keyType, pw,
                                  KdfSalt(seed) \o FileNonce(seed))
       IN /\ kp' = k
          /\ hist' = <<Call("Load", [key |-> rawKey, pw |-> pw], "nil", k)>>
  /\ KeyFrame

KeyEncrypt ==
  /\ kp # NoKp
  /\ Len(hist) < MaxOps
  /\ \E pw \in Passwords, seed \in SaltSeeds :
       LET r == KpEncrypt(kp, pw, KdfSalt(seed))
       IN /\ kp' = r.rec
          /\ hist' = Append(hist, Call("Encrypt", pw, r.err, r.rec))
  /\ KeyFrame

KeyDecrypt ==
  /\ kp # NoKp
  /\ Len(hist) < MaxOps
  /\ \E pw \in Passwords :
       LET r == KpDecrypt(kp, pw)
       IN /\ kp' = r.rec
          /\ hist' = Append(hist, Call("Decrypt", pw, r.err, r.rec))
  /\ KeyFrame

\* One byte of the stored ciphertext or MAC is changed behind the program's
\* back: either one byte of the encoded value or one character of its text.
TamperedTexts(text) ==
  LET bytes == DecodeBase58(text)
  IN UNION { { EncodeBase58([bytes EXCEPT ![i] = (bytes[i] + 1) % ByteRadix]),
               EncodeBase58([bytes EXCEPT ![i] = XorByte(bytes[i], 128)]) } :
             i \in DOMAIN bytes }
     \cup
     UNION { { [text EXCEPT ![i] = (text[i] + 1) % B58Radix],
               [text EXCEPT ![i] = InvalidChar] } :
             i \in DOMAIN text }

KeyTamper ==
  /\ Len(hist) = 1
  /\ hist[1].op = "Load"
  /\ \E field \in {"EncryptedKey", "Mac"} :
       \E t \in TamperedTexts(kp[field]) :
          /\ kp' = [kp EXCEPT ![field] = t]
          /\ hist' = Append(hist, Call("Tamper", field, "nil", kp'))
  /\ KeyFrame

\* LoadAccountFrom delivers a record whose salt is malformed, or a record
\* with no key material at all
KeyLoadMalformed ==
  /\ hist = <<>>
  /\ \E seed \in SaltSeeds :
       LET salt == KdfSalt(seed) \o FileNonce(seed)
           k == SealedKeyPairInfo("u1", <<0, 5>>, "ed25519", <<1>>, salt)
       IN \E m \in { [k EXCEPT !.Salt = t] : t \in MalformedSalts(salt) }
                     \cup { KeyPairInfo("u1", <<>>, "ed25519", k.PubKey, <<>>, <<>>, <<>>) } :
            /\ kp' = m
            /\ hist' = <<Call("LoadMalformed", [key |-> <<0, 5>>, pw |-> <<1>>], "nil", m)>>
  /\ KeyFrame

\* Decrypt of a record with a short salt when the decoded slice has spare
\* capacity
KeyDecryptSpare ==
  /\ kp # NoKp
  /\ Len(hist) < MaxOps
  /\ KpIsEncrypted(kp)
  /\ Len(DecodeBase58(kp.Salt)) < SaltLen
  /\ \E pw \in Passwords, spare \in SpareBytes :
       LET r == KpDecryptSpare(kp, pw, spare)
       IN /\ kp' = r.rec
          /\ hist' = Append(hist, Call("Decrypt", pw, r.err, r.rec))
  /\ KeyFrame

----------------------------------------------------------------------------
(* Account record: AccountInfo.  Keypairs is a function from the role      *)
(* labels present to key records.  Go iterates a map in an order that is   *)
(* not specified: every batch operation takes the order as an input.       *)

Roles == { "owner", "active" }
Names == { "alice", "bob" }
AcctPasswords == { <<1>>, <<2, 1>> }

\* key records a caller puts into an account: created from a raw key, or
\* taken over from a keystore file in encrypted state
MemberRecords ==
  { NewKeyPairInfo(<<0, 5>>, "ed25519", "u1").rec,
    NewKeyPairInfo(<<33, 7>>, "ed25519", "u2").rec,
    SealedKeyPairInfo("u1", <<0, 5>>, "ed25519", <<1>>, KdfSalt(3) \o FileNonce(3)) }

EmptyMap == [r \in {} |-> NoKp]

NewAccountInfo == [Name |-> "", Keypairs |-> EmptyMap]

\* a.Keypairs[perm] = k
PutKeyPair(a, perm, k) ==
  [a EXCEPT !.Keypairs = [r \in DOMAIN a.Keypairs \cup {perm} |->
                            IF r = perm THEN k ELSE a.Keypairs[r]]]

\* the orders in which a range loop may visit the map
Orders(m) ==
  { o \in [1..Cardinality(DOMAIN m) -> DOMAIN m] :
      \A i, j \in DOMAIN o : i # j => o[i] # o[j] }

GetKeyPair(a, perm) ==
  IF perm \notin DOMAIN a.Keypairs
  THEN [keys |-> NoKp, err |-> "invalid permission"]
  ELSE ToKeyPair(a.Keypairs[perm])

\* an account taken for encrypted only when every member is
AcctIsEncryptedAll(a) ==
  /\ DOMAIN a.Keypairs # {}
  /\ \A r \in DOMAIN a.Keypairs : KpIsEncrypted(a.Keypairs[r])

AcctIsEncrypted(a) == \E r \in DOMAIN a.Keypairs : KpIsEncrypted(a.Keypairs[r])

\* for _, kp := range a.Keypairs { err := kp.Decrypt(password); ... }
RECURSIVE DecryptLoop(_, _, _, _)
DecryptLoop(a, order, i, password) ==
  IF i > Len(order) THEN [acc |-> a, err |-> "nil"]
  ELSE LET r == KpDecrypt(a.Keypairs[order[i]], password)
           b == [a EXCEPT !.Keypairs[order[i]] = r.rec]
       IN IF r.err # "nil" THEN [acc |-> b, err |-> r.err]
          ELSE DecryptLoop(b, order, i + 1, password)

\* a batch Decrypt that restores every member when one member fails
AcctDecryptRollback(a, password, order) ==
  IF ~AcctIsEncrypted(a) THEN [acc |-> a, err |-> "not encrypted"]
  ELSE LET r == DecryptLoop(a, order, 1, password)
       IN IF r.err # "nil" THEN [acc |-> a, err |-> r.err] ELSE r

AcctDecrypt(a, password, order) ==
  IF ~AcctIsEncrypted(a) THEN [acc |-> a, err |-> "not encrypted"]
  ELSE DecryptLoop(a, order, 1, password)

\* a loop that encrypts the first member it visits and stops
EncryptLoopFirstOnly(a, order, i, password, seeds) ==
  IF i > Len(order) THEN [acc |-> a, err |-> "nil"]
  ELSE LET r == KpEncrypt(a.Keypairs[order[i]], password, KdfSalt(seeds[order[i]]))
       IN [acc |-> [a EXCEPT !.Keypairs[order[i]] = r.rec], err |-> r.err]

\* for _, k := range a.Keypairs { err := k.Encrypt(password); ... }
\* seeds gives the randomness each member's Encrypt reads
RECURSIVE EncryptLoop(_, _, _, _, _)
EncryptLoop(a, order, i, password, seeds) ==
  IF i > Len(order) THEN [acc |-> a, err |-> "nil"]
  ELSE LET r == KpEncrypt(a.Keypairs[order[i]], password, KdfSalt(seeds[order[i]]))
           b == [a EXCEPT !.Keypairs[order[i]] = r.rec]
       IN IF r.err # "nil" THEN [acc |-> b, err |-> r.err]
          ELSE EncryptLoop(b, order, i + 1, password, seeds)

AcctEncrypt(a, password, order, seeds) ==
  IF AcctIsEncrypted(a) THEN [acc |-> a, err |-> "account already encrypted"]
  ELSE EncryptLoop(a, order, 1, password, seeds)

----------------------------------------------------------------------------
(* Account operations as steps.  alast is the last call on acct: op,       *)
(* argument, error returned, the account before the call and the key pair  *)
(* a lookup returned.                                                      *)

AcctCall(op, arg, err, before, keys) ==
  [op |-> op, arg |-> arg, err |-> err, before |-> before, keys |-> keys]

AcctFrame == UNCHANGED <<kp, hist, fs, clock, saved, slast, race>>

AcctCreate ==
  /\ acct = NoKp
  /\ \E name \in Names :
       /\ acct' = [NewAccountInfo EXCEPT !.Name = name]
       /\ alast' = AcctCall("New", name, "nil", NoKp, NoKp)
  /\ AcctFrame

AcctPut ==
  /\ acct # NoKp
  /\ alast.op \in {"New", "Put"}
  /\ \E perm \in Roles, k \in MemberRecords :
       /\ acct' = PutKeyPair(acct, perm, k)
       /\ alast' = AcctCall("Put", perm, "nil", acct, NoKp)
  /\ AcctFrame

AcctDoEncrypt ==
  /\ acct # NoKp
  /\ \E pw \in AcctPasswords, order \in Orders(acct.Keypairs),
        seeds \in [DOMAIN acct.Keypairs -> SaltSeeds] :
       LET r == AcctEncrypt(acct, pw, order, seeds)
       IN /\ acct' = r.acc
          /\ alast' = AcctCall("Encrypt", pw, r.err, acct, NoKp)
  /\ AcctFrame

AcctDoDecrypt ==
  /\ acct # NoKp
  /\ \E pw \in AcctPasswords, order \in Orders(acct.Keypairs) :
       LET r == AcctDecrypt(acct, pw, order)
       IN /\ acct' = r.acc
          /\ alast' = AcctCall("Decrypt", [pw |-> pw, order |-> order], r.err, acct, NoKp)
  /\ AcctFrame

AcctGetKeyPair ==
  /\ acct # NoKp
  /\ \E perm \in Roles :
       LET r == GetKeyPair(acct, perm)
       IN /\ acct' = acct
          /\ alast' = AcctCall("GetKeyPair", perm, r.err, acct, r.keys)
  /\ AcctFrame

----------------------------------------------------------------------------
(* Account store: FileAccountStore over one directory.  fs.live maps an    *)
(* account name to the file AccountDir/name.json, fs.backup maps a pair    *)
(* <<name, timestamp>> to the file AccountDir/backup/name.timestamp.json.  *)
(* A file holds the JSON blob written and, for the properties only, the    *)
(* number of the Save that wrote it.  clock is time.Now() in seconds, the  *)
(* resolution of the RFC3339 layout.                                       *)

EmptyFiles == [n \in {} |-> NoKp]

\* a key record decrypted after loading: raw key next to the encrypted fields
OpenedRecord ==
  KpDecrypt(SealedKeyPairInfo("u1", <<0, 5>>, "ed25519", <<1>>,
                              KdfSalt(3) \o FileNonce(3)), <<1>>).rec

StoreAccounts ==
  { [Name |-> "alice", Keypairs |-> EmptyMap],
    [Name |-> "alice",
     Keypairs |-> [r \in {"owner"} |-> NewKeyPairInfo(<<33, 7>>, "ed25519", "u2").rec]],
    [Name |-> "alice",
     Keypairs |-> [r \in Roles |->
                     IF r = "owner" THEN OpenedRecord
                     ELSE KpEncrypt(NewKeyPairInfo(<<0, 5>>, "ed25519", "u1").rec,
                                    <<2, 1>>, KdfSalt(0)).rec]],
    [Name |-> "bob",
     Keypairs |-> [r \in {"active"} |-> NewKeyPairInfo(<<0, 5>>, "ed25519", "u1").rec]] }

\* struct tags of KeyPairInfo: the fields marked omitempty
OmitEmpty == { "raw_key", "salt", "encrypted_key", "mac" }

JsonFields(k) ==
  [kp_id |-> k.ID, raw_key |-> k.RawKey, key_type |-> k.KeyType,
   public_key |-> k.PubKey, salt |-> k.Salt, encrypted_key |-> k.EncryptedKey,
   mac |-> k.Mac]

\* json.MarshalIndent of a key record: an object without its empty
\* omitempty fields
MarshalKeyPair(k) ==
  LET all == JsonFields(k)
  IN [f \in { g \in DOMAIN all : ~(g \in OmitEmpty /\ all[g] = <<>>) } |-> all[f]]

\* a marshaller that never writes the raw key
MarshalKeyPairNoRaw(k) ==
  LET all == JsonFields(k)
  IN [f \in { g \in DOMAIN all : g # "raw_key" /\ ~(g \in OmitEmpty /\ all[g] = <<>>) }
        |-> all[f]]

\* a marshaller of accounts that never writes a raw key
MarshalAccountNoRaw(a) ==
  [name |-> a.Name,
   keypairs |-> [r \in DOMAIN a.Keypairs |-> MarshalKeyPairNoRaw(a.Keypairs[r])]]

MarshalAccount(a) ==
  [name |-> a.Name,
   keypairs |-> [r \in DOMAIN a.Keypairs |-> MarshalKeyPair(a.Keypairs[r])]]

JsonText(obj, f) == IF f \in DOMAIN obj THEN obj[f] ELSE <<>>

\* json.Unmarshal into a key record: an absent field stays the empty string
UnmarshalKeyPair(obj) ==
  KeyPairInfo(IF "kp_id" \in DOMAIN obj THEN obj.kp_id ELSE "",
              JsonText(obj, "raw_key"),
              IF "key_type" \in DOMAIN obj THEN obj.key_type ELSE "",
              JsonText(obj, "public_key"), JsonText(obj, "salt"),
              JsonText(obj, "encrypted_key"), JsonText(obj, "mac"))

\* json.Unmarshal(data, NewAccountInfo())
UnmarshalAccount(blob) ==
  [Name |-> IF "name" \in DOMAIN blob THEN blob.name ELSE NewAccountInfo.Name,
   Keypairs |-> IF "keypairs" \in DOMAIN blob
                THEN [r \in DOMAIN blob.keypairs |-> UnmarshalKeyPair(blob.keypairs[r])]
                ELSE NewAccountInfo.Keypairs]

File(data, ver) == [data |-> data, ver |-> ver]

\* what a file holds that is not a JSON document: a foreign or damaged
\* file, or the beginning of a blob whose write did not complete
Garbage == [garbage |-> TRUE]

\* the names of the live files that hold a JSON document
Decodable(files) ==
  { n \in DOMAIN files.live : files.live[n].data # Garbage }

\* os.MkdirAll(s.AccountDir, 0700)
MkdirAll(files) == [files EXCEPT !.dir = TRUE]

\* a rename that removes the live file and keeps no copy of it
RenameDiscard(files, name, now) ==
  [files EXCEPT !.live = [n \in DOMAIN files.live \ {name} |-> files.live[n]]]

\* os.Rename(fileName, backupFileName) at time now: the live file moves to
\* the backup slot of this second and replaces what the slot held
RenameToBackup(files, name, now) ==
  LET slot == <<name, now>>
  IN [files EXCEPT
        !.live = [n \in DOMAIN files.live \ {name} |-> files.live[n]],
        !.backup = [b \in DOMAIN files.backup \cup {slot} |->
                      IF b = slot THEN files.live[name] ELSE files.backup[b]]]

\* os.WriteFile(fileName, data, 0400)
WriteLive(files, name, data, ver) ==
  [files EXCEPT !.live = [n \in DOMAIN files.live \cup {name} |->
                            IF n = name THEN File(data, ver) ELSE files.live[n]]]

\* SaveAccount up to the call of a.SaveTo: directory made, old file backed up
BackedUp(files, name, now) ==
  IF name \in DOMAIN files.live
  THEN RenameToBackup(MkdirAll(files), name, now)
  ELSE MkdirAll(files)

\* os.Rename(fileName, backupFileName) followed by a.SaveTo(fileName):
\* the file system after SaveAccount(a) at time now
SaveAccountFiles(files, a, now, ver) ==
  WriteLive(BackedUp(files, a.Name, now), a.Name, MarshalAccount(a), ver)

SaveOutcomes == { "ok", "open failed", "write failed" }

\* a SaveAccount that reports success whatever SaveTo returned
SaveAccountSwallow(files, a, now, ver, outcome) ==
  [files |-> IF outcome = "ok" THEN SaveAccountFiles(files, a, now, ver)
             ELSE BackedUp(files, a.Name, now),
   err |-> "nil"]

\* SaveAccount with the outcome of a.SaveTo: written, not written (marshal
\* or open failed), or failed after the file was created
SaveAccount(files, a, now, ver, outcome) ==
  IF outcome = "ok"
  THEN [files |-> SaveAccountFiles(files, a, now, ver), err |-> "nil"]
  ELSE IF outcome = "open failed"
  THEN [files |-> BackedUp(files, a.Name, now), err |-> outcome]
  ELSE [files |-> WriteLive(BackedUp(files, a.Name, now), a.Name, Garbage, 0),
        err |-> outcome]

LoadAccountFrom(data) ==
  IF data = Garbage
  THEN [acc |-> NoKp, err |-> "key store should be a json file"]
  ELSE [acc |-> UnmarshalAccount(data), err |-> "nil"]

LoadAccount(files, name) ==
  IF name \notin DOMAIN files.live
  THEN [acc |-> NoKp, err |-> "account is not imported"]
  ELSE LoadAccountFrom(files.live[name].data)

\* os.ReadDir returns the entries sorted by file name: alice.json, backup,
\* bob.json
EntryOrder == << "alice", "backup", "bob" >>

DirEntries(files) ==
  LET Present(e) == IF e = "backup" THEN DOMAIN files.backup # {}
                    ELSE e \in DOMAIN files.live
  IN SelectSeq(EntryOrder, Present)

\* LoadAccountFrom on a directory entry; reading the backup directory fails
LoadEntry(files, e) ==
  IF e = "backup" THEN [acc |-> NoKp, err |-> "read: is a directory"]
  ELSE LoadAccountFrom(files.live[e].data)

\* a listing that gives up at the first entry that does not load
RECURSIVE ListLoopFailFast(_, _, _, _)
ListLoopFailFast(files, entries, i, accs) ==
  IF i > Len(entries) THEN [accs |-> accs, err |-> "nil"]
  ELSE LET r == LoadEntry(files, entries[i])
       IN IF r.err # "nil" THEN [accs |-> <<>>, err |-> r.err]
          ELSE ListLoopFailFast(files, entries, i + 1, Append(accs, r.acc))

\* for _, f := range files { acc, err := LoadAccountFrom(...); ... }
RECURSIVE ListLoop(_, _, _, _)
ListLoop(files, entries, i, accs) ==
  IF i > Len(entries) THEN [accs |-> accs, err |-> "nil"]
  ELSE LET r == LoadEntry(files, entries[i])
       IN IF r.err # "nil" THEN ListLoop(files, entries, i + 1, accs)
          ELSE ListLoop(files, entries, i + 1, Append(accs, r.acc))

ListAccounts(files) ==
  IF ~files.dir THEN [accs |-> <<>>, err |-> "readdir: no such directory"]
  ELSE ListLoop(files, DirEntries(files), 1, <<>>)

DeleteAccountFiles(files, name) ==
  [files EXCEPT !.live = [n \in DOMAIN files.live \ {name} |-> files.live[n]]]

----------------------------------------------------------------------------
(* Store operations as steps.  saved lists the calls of SaveAccount so    *)
(* far: the account saved, or nil for a call whose write failed;           *)
(* slast is the last store call with the file system before it, the call   *)
(* before it and what a Load returned.                                     *)

StoreCall(op, name, err, before, prev, acc) ==
  [op |-> op, name |-> name, err |-> err, before |-> before, prev |-> prev, acc |-> acc]

Forget(call) == IF call = NoKp THEN NoKp ELSE [call EXCEPT !.before = NoKp, !.prev = NoKp]

StoreFrame == UNCHANGED <<kp, hist, acct, alast, race>>

\* calls of SaveAccount so far whose write failed
FailedSaves == Cardinality({ i \in DOMAIN saved : saved[i] = NoKp })

StoreOpen ==
  /\ fs = NoKp
  /\ \E dir \in BOOLEAN :
       fs' = [live |-> EmptyFiles, backup |-> EmptyFiles, dir |-> dir]
  /\ slast' = StoreCall("NewFileAccountStore", "", "nil", NoKp, NoKp, NoKp)
  /\ UNCHANGED <<clock, saved>>
  /\ StoreFrame

StoreSave ==
  /\ fs # NoKp
  /\ Len(saved) < MaxSaves
  /\ \E a \in StoreAccounts, outcome \in SaveOutcomes :
       LET r == SaveAccount(fs, a, clock, Len(saved) + 1, outcome)
       IN /\ outcome # "ok" => FailedSaves < MaxFailedSaves
          /\ fs' = r.files
          /\ saved' = Append(saved, IF outcome = "ok" THEN a ELSE NoKp)
          /\ slast' = StoreCall("Save", a.Name, r.err, fs, Forget(slast), a)
  /\ UNCHANGED clock
  /\ StoreFrame

StoreList ==
  /\ fs # NoKp
  /\ LET r == ListAccounts(fs)
     IN slast' = StoreCall("List", "", r.err, fs, Forget(slast), r.accs)
  /\ UNCHANGED <<fs, clock, saved>>
  /\ StoreFrame

\* a file of the store directory is damaged or replaced from outside
StoreCorrupt ==
  /\ fs # NoKp
  /\ \E name \in DOMAIN fs.live :
       /\ fs.live[name].data # Garbage
       /\ fs' = WriteLive(fs, name, Garbage, fs.live[name].ver)
       /\ slast' = StoreCall("Corrupt", name, "nil", fs, Forget(slast), NoKp)
  /\ UNCHANGED <<clock, saved>>
  /\ StoreFrame

StoreLoad ==
  /\ fs # NoKp
  /\ \E name \in Names :
       LET r == LoadAccount(fs, name)
       IN slast' = StoreCall("Load", name, r.err, fs, Forget(slast), r.acc)
  /\ UNCHANGED <<fs, clock, saved>>
  /\ StoreFrame

StoreDelete ==
  /\ fs # NoKp
  /\ \E name \in Names :
       /\ fs' = IF name \in DOMAIN fs.live THEN DeleteAccountFiles(fs, name) ELSE fs
       /\ slast' = StoreCall("Delete", name,
                             IF name \in DOMAIN fs.live THEN "nil" ELSE "remove: no such file",
                             fs, Forget(slast), NoKp)
  /\ UNCHANGED <<clock, saved>>
  /\ StoreFrame

Tick ==
  /\ fs # NoKp
  /\ clock < MaxClock
  /\ clock' = clock + 1
  /\ UNCHANGED <<fs, saved, slast>>
  /\ StoreFrame

----------------------------------------------------------------------------
(* SaveAccount and LoadAccount as sequences of file system calls, run by   *)
(* two callers of SaveAccount and one caller of LoadAccount on the same    *)
(* account name without any lock.  race holds each caller's position and   *)
(* locals.  The ver of a file names the call that created it; a write goes *)
(* to the file its caller opened, wherever a rename has moved it since.    *)

Savers == {1, 2}
RaceName == "alice"
RaceAccounts == { a \in StoreAccounts : a.Name = RaceName }

\* a Stat that never finds the file
StatNever(files, name) == FALSE

\* os.Stat(fileName) finds the file
StatExists(files, name) == name \in DOMAIN files.live

\* the store directory before the calls: empty, or one account saved earlier
RaceStores ==
  { [live |-> EmptyFiles, backup |-> EmptyFiles, dir |-> TRUE] }
    \cup { SaveAccountFiles([live |-> EmptyFiles, backup |-> EmptyFiles, dir |-> FALSE],
                            a, 0, 1) : a \in RaceAccounts }

\* the content of the files that decode
LiveData(files) ==
  { files.live[n].data : n \in Decodable(files) }

StoredData(files) ==
  (LiveData(files) \cup { files.backup[b].data : b \in DOMAIN files.backup })
    \ {Garbage}

IdleSaver == [pc |-> "idle", a |-> NoKp, now |-> 0, fd |-> 0, err |-> "nil"]
IdleLoader == [pc |-> "idle", err |-> "nil", hadLive |-> FALSE, mid |-> FALSE]

InFlight(sv) == sv.pc \notin {"idle", "done"}

\* a SaveAccount between its Stat or Rename and the end of its write
MidSave(sv) == sv.pc \in {"create", "write"}

RaceFrame == UNCHANGED <<kp, hist, acct, alast, saved, slast>>

RaceOpen ==
  /\ fs = NoKp
  /\ \E files \in RaceStores, root \in BOOLEAN :
       /\ fs' = files
       /\ race' = [root |-> root, saver |-> [p \in Savers |-> IdleSaver],
                   loader |-> IdleLoader, everLive |-> LiveData(files),
                   overlap |-> FALSE, mixed |-> FALSE]
  /\ UNCHANGED clock
  /\ RaceFrame

\* the caller p moves to pc with its locals changed to sv
SaverStep(p, sv) == [race EXCEPT !.saver[p] = sv]

\* s.SaveAccount(a) is called: os.MkdirAll(s.AccountDir, 0700)
SaverCall(p) ==
  /\ race # NoKp
  /\ race.saver[p].pc = "idle"
  /\ \E a \in RaceAccounts :
       race' = [SaverStep(p, [race.saver[p] EXCEPT !.pc = "stat", !.a = a])
                  EXCEPT !.overlap = race.overlap
                                       \/ \E q \in Savers \ {p} : InFlight(race.saver[q])]
  /\ fs' = MkdirAll(fs)
  /\ UNCHANGED clock
  /\ RaceFrame

\* if _, err := os.Stat(fileName); !os.IsNotExist(err)
SaverStat(p) ==
  /\ race # NoKp
  /\ race.saver[p].pc = "stat"
  /\ race' = SaverStep(p, [race.saver[p] EXCEPT
                             !.pc = IF StatExists(fs, RaceName) THEN "time" ELSE "create"])
  /\ UNCHANGED <<fs, clock>>
  /\ RaceFrame

\* timeStr := time.Now().Format(time.RFC3339); os.MkdirAll(backupDir, 0700)
SaverTime(p) ==
  /\ race # NoKp
  /\ race.saver[p].pc = "time"
  /\ race' = SaverStep(p, [race.saver[p] EXCEPT !.pc = "rename", !.now = clock])
  /\ UNCHANGED <<fs, clock>>
  /\ RaceFrame

\* err = os.Rename(fileName, backupFileName): fails when the file is gone
SaverRename(p) ==
  /\ race # NoKp
  /\ race.saver[p].pc = "rename"
  /\ IF StatExists(fs, RaceName)
     THEN /\ fs' = RenameToBackup(fs, RaceName, race.saver[p].now)
          /\ race' = SaverStep(p, [race.saver[p] EXCEPT !.pc = "create"])
     ELSE /\ fs' = fs
          /\ race' = SaverStep(p, [race.saver[p] EXCEPT
                                     !.pc = "done", !.err = "rename: no such file"])
  /\ UNCHANGED clock
  /\ RaceFrame

\* os.WriteFile opens fileName with O_WRONLY|O_CREATE|O_TRUNC and mode 0400:
\* a new file is created empty; a file that exists was created with mode
\* 0400, so the open is refused, or for a privileged caller truncates it
SaverCreate(p) ==
  /\ race # NoKp
  /\ race.saver[p].pc = "create"
  /\ IF ~StatExists(fs, RaceName)
     THEN /\ fs' = WriteLive(fs, RaceName, Garbage, p + 1)
          /\ race' = SaverStep(p, [race.saver[p] EXCEPT !.pc = "write", !.fd = p + 1])
     ELSE IF race.root
     THEN /\ fs' = WriteLive(fs, RaceName, Garbage, fs.live[RaceName].ver)
          /\ race' = SaverStep(p, [race.saver[p] EXCEPT
                                     !.pc = "write", !.fd = fs.live[RaceName].ver])
     ELSE /\ fs' = fs
          /\ race' = SaverStep(p, [race.saver[p] EXCEPT
                                     !.pc = "done", !.err = "open: permission denied"])
  /\ UNCHANGED clock
  /\ RaceFrame

\* the content of the file opened as fd after data is written at its start:
\* the data, or when another caller has written to the same file, the data
\* followed by what is left of the longer content
Written(old, data) == IF old = Garbage THEN {data} ELSE {data, Garbage}

\* the files after the write of data to the file opened as fd
WriteFd(files, fd, data) ==
  [files EXCEPT
     !.live = [n \in DOMAIN files.live |->
                 IF files.live[n].ver = fd THEN File(data, fd) ELSE files.live[n]],
     !.backup = [b \in DOMAIN files.backup |->
                   IF files.backup[b].ver = fd THEN File(data, fd) ELSE files.backup[b]]]

\* the file opened as fd, if a name still leads to it
Opened(files, fd) ==
  { files.live[n] : n \in { m \in DOMAIN files.live : files.live[m].ver = fd } }
    \cup { files.backup[b] : b \in { c \in DOMAIN files.backup : files.backup[c].ver = fd } }

\* the write and close of os.WriteFile
SaverWrite(p) ==
  /\ race # NoKp
  /\ race.saver[p].pc = "write"
  /\ LET sv == race.saver[p]
         data == MarshalAccount(sv.a)
         old == IF Opened(fs, sv.fd) = {} THEN Garbage
                ELSE (CHOOSE f \in Opened(fs, sv.fd) : TRUE).data
     IN \E new \in Written(old, data) :
          /\ fs' = WriteFd(fs, sv.fd, new)
          /\ race' = [SaverStep(p, [sv EXCEPT !.pc = "done"])
                        EXCEPT !.everLive = race.everLive \cup LiveData(fs'),
                               !.mixed = race.mixed \/ (new = Garbage)]
  /\ UNCHANGED clock
  /\ RaceFrame

\* the loader ends with err; mid tells whether a SaveAccount was under way
LoaderDone(err) ==
  [race EXCEPT !.loader.pc = "done", !.loader.err = err,
               !.loader.mid = \E p \in Savers : MidSave(race.saver[p])]

\* s.LoadAccount(name) is called
LoaderCall ==
  /\ race # NoKp
  /\ race.loader.pc = "idle"
  /\ race' = [race EXCEPT !.loader.pc = "stat",
                          !.loader.hadLive = RaceName \in Decodable(fs)]
  /\ UNCHANGED <<fs, clock>>
  /\ RaceFrame

\* _, err := os.Stat(fileName)
LoaderStat ==
  /\ race # NoKp
  /\ race.loader.pc = "stat"
  /\ race' = IF StatExists(fs, RaceName)
             THEN [race EXCEPT !.loader.pc = "read"]
             ELSE LoaderDone("account is not imported")
  /\ UNCHANGED <<fs, clock>>
  /\ RaceFrame

\* LoadAccountFrom(fileName): os.ReadFile, json.Unmarshal
LoaderRead ==
  /\ race # NoKp
  /\ race.loader.pc = "read"
  /\ race' = IF StatExists(fs, RaceName)
             THEN LoaderDone(LoadAccountFrom(fs.live[RaceName].data).err)
             ELSE LoaderDone("open: no such file")
  /\ UNCHANGED <<fs, clock>>
  /\ RaceFrame

----------------------------------------------------------------------------

Init ==
  /\ kp = NoKp
  /\ hist = <<>>
  /\ acct = NoKp
  /\ alast = NoKp
  /\ fs = NoKp
  /\ clock = 0
  /\ saved = <<>>
  /\ slast = NoKp
  /\ race = NoKp

NextKey ==
  \/ KeyNew \/ KeyLoad \/ KeyEncrypt \/ KeyDecrypt \/ KeyTamper
  \/ KeyLoadMalformed \/ KeyDecryptSpare

SpecKey == Init /\ [][NextKey]_vars

NextAcct == AcctCreate \/ AcctPut \/ AcctDoEncrypt \/ AcctDoDecrypt \/ AcctGetKeyPair

SpecAcct == Init /\ [][NextAcct]_vars

NextStore ==
  \/ StoreOpen \/ StoreSave \/ StoreLoad \/ StoreDelete \/ Tick

SpecStore == Init /\ [][NextStore]_vars

\* the store under listing, with files damaged from outside
NextList ==
  \/ StoreOpen \/ StoreSave \/ StoreCorrupt \/ StoreList \/ Tick

SpecList == Init /\ [][NextList]_vars

\* two SaveAccount calls and one LoadAccount call on one name, step by step
NextRace ==
  \/ RaceOpen
  \/ \E p \in Savers : SaverCall(p)
  \/ \E p \in Savers : SaverStat(p)
  \/ \E p \in Savers : SaverTime(p)
  \/ \E p \in Savers : SaverRename(p)
  \/ \E p \in Savers : SaverCreate(p)
  \/ \E p \in Savers : SaverWrite(p)
  \/ LoaderCall \/ LoaderStat \/ LoaderRead
  \/ Tick

SpecRace == Init /\ [][NextRace]_vars

TypeKey == Len(hist) <= MaxOps

----------------------------------------------------------------------------
(* Properties of a key record (specification SpecKey) *)

Calls == 1..Len(hist)

Succeeded(i, op) == hist[i].op = op /\ hist[i].err = "nil"

Unchanged(i) == hist[i].after = Before(i)

\* the call that produced the encrypted fields the record holds before call i
SealCall(i) ==
  LET js == { j \in 1..(i - 1) : Succeeded(j, "Encrypt") \/ hist[j].op = "Load" }
  IN IF js = {} THEN 0 ELSE CHOOSE j \in js : \A m \in js : m <= j

SealPw(i) ==
  IF hist[SealCall(i)].op = "Load" THEN hist[SealCall(i)].arg.pw
  ELSE hist[SealCall(i)].arg

NoTamper == \A i \in Calls : hist[i].op # "Tamper"

\* C1: a record created from a raw key k, encrypted with p and then
\* decrypted with the same p: Decrypt succeeds and rawKey decodes to the
\* bytes of k.
RoundTrip ==
  (/\ Len(hist) >= 3
   /\ Succeeded(1, "New")
   /\ Succeeded(2, "Encrypt")
   /\ hist[3].op = "Decrypt"
   /\ hist[3].arg = hist[2].arg)
  => /\ hist[3].err = "nil"
     /\ DecodeBase58(hist[3].after.RawKey) = DecodeBase58(hist[1].arg)

WrongPasswordCase(i) ==
  /\ hist[i].op = "Decrypt"
  /\ SealCall(i) # 0
  /\ NoTamper
  /\ hist[i].arg # SealPw(i)

\* C2: Decrypt with a password other than the one the record was encrypted
\* with returns "wrong password" and leaves every field of the record as it
\* was.
WrongPasswordKeepsRecord ==
  \A i \in Calls :
    WrongPasswordCase(i) => hist[i].err = "wrong password" /\ Unchanged(i)

WrongPasswordSeen ==
  \E i \in Calls :
    /\ WrongPasswordCase(i)
    /\ hist[SealCall(i)].op = "Encrypt"
    /\ hist[i].err = "wrong password"

\* C3: whatever Encrypt and Decrypt calls are made on a created or loaded
\* record, it never holds a non-empty rawKey next to a non-empty
\* encryptedKey.
NeverRawAndEncrypted ==
  (kp # NoKp /\ NoTamper) => ~(kp.RawKey # <<>> /\ kp.EncryptedKey # <<>>)

SecondEncryptCase(i) ==
  /\ hist[i].op = "Encrypt"
  /\ \E j \in 1..(i - 1) :
       /\ Succeeded(j, "Encrypt")
       /\ \A m \in (j + 1)..(i - 1) : hist[m].op # "Decrypt"

NeverEncryptedCase(i) ==
  /\ hist[i].op = "Decrypt"
  /\ Succeeded(1, "New")
  /\ \A j \in 1..(i - 1) : ~Succeeded(j, "Encrypt")

\* C4: Encrypt on a record already encrypted (no Decrypt since the
\* successful Encrypt) returns "already encrypted", Decrypt on a record
\* never encrypted returns "not encrypted", and neither changes the record.
StateGuard ==
  \A i \in Calls :
    /\ SecondEncryptCase(i) => hist[i].err = "already encrypted" /\ Unchanged(i)
    /\ NeverEncryptedCase(i) => hist[i].err = "not encrypted" /\ Unchanged(i)

StateGuardSeen ==
  /\ \E i \in Calls : SecondEncryptCase(i) /\ hist[i].err = "already encrypted"
  /\ \E i \in Calls : NeverEncryptedCase(i) /\ hist[i].err = "not encrypted"

TamperCase ==
  /\ Len(hist) >= 3
  /\ hist[1].op = "Load"
  /\ hist[2].op = "Tamper"
  /\ hist[3].op = "Decrypt"
  /\ hist[3].arg = hist[1].arg.pw

\* C8: after one byte of the stored ciphertext or MAC of a correctly
\* encrypted record was changed, Decrypt with the correct password returns
\* an error ("wrong password"; the code has no separate malformed-record
\* error) and rawKey never becomes a value other than the original key.
TamperDetected ==
  TamperCase =>
    /\ hist[3].err = "wrong password"
    /\ \/ hist[3].after.RawKey = <<>>
       \/ DecodeBase58(hist[3].after.RawKey) = DecodeBase58(hist[1].arg.key)

TamperedCiphertextSeen ==
  TamperCase /\ hist[2].arg = "EncryptedKey" /\ hist[3].err = "wrong password"

EmptyPasswordCase(i) ==
  /\ hist[i].op = "Encrypt"
  /\ hist[i].arg = <<>>
  /\ ~KpIsEncrypted(Before(i))

\* C9: creating a record from an empty raw key fails ("empty key"), and
\* Encrypt with an empty password on a plaintext record fails and leaves
\* the record in plaintext state.
EmptyInputRejected ==
  \A i \in Calls :
    /\ (hist[i].op = "New" /\ hist[i].arg = <<>>) => hist[i].err = "empty key"
    /\ EmptyPasswordCase(i) => hist[i].err # "nil" /\ ~KpIsEncrypted(hist[i].after)

----------------------------------------------------------------------------
(* Properties of an account record (specification SpecAcct) *)

AlreadyEncryptedErrs == { "already encrypted", "account already encrypted" }

PlainRoles(a) == { r \in DOMAIN a.Keypairs : ~KpIsEncrypted(a.Keypairs[r]) }

MixedEncryptCase ==
  /\ alast # NoKp
  /\ alast.op = "Encrypt"
  /\ PlainRoles(alast.before) # {}
  /\ PlainRoles(alast.before) # DOMAIN alast.before.Keypairs

\* C7: Encrypt on an account with at least one encrypted and at least one
\* plaintext member returns an already-encrypted error and leaves every
\* plaintext member as it was, in every iteration order.
MixedEncryptRejected ==
  MixedEncryptCase =>
    /\ alast.err \in AlreadyEncryptedErrs
    /\ \A r \in PlainRoles(alast.before) :
         acct.Keypairs[r] = alast.before.Keypairs[r]

MixedEncryptSeen ==
  MixedEncryptCase /\ alast.err = "account already encrypted"

LookupCase == alast # NoKp /\ alast.op = "GetKeyPair"

KeysOf(id) == [Priv |-> NewKeyPair(id).Priv, Pub |-> NewKeyPair(id).Pub,
               PubKeySign |-> NoKp]

\* C10 as stated: the lookup fails with "invalid permission" for an absent
\* label, and for a present label it returns the key pair of the record's
\* id whether the record's rawKey is empty or not.
LookupIgnoresRawKey ==
  LookupCase =>
    IF alast.arg \notin DOMAIN alast.before.Keypairs
    THEN alast.err = "invalid permission"
    ELSE /\ alast.err = "nil"
         /\ alast.keys = KeysOf(alast.before.Keypairs[alast.arg].ID)

\* C10 as amended: the lookup fails with "invalid permission" for an absent
\* label; for a label whose record has a non-empty rawKey it returns the
\* key pair of the record's id; for a label whose record has an empty
\* rawKey it fails with "empty keypair" and returns no key pair.
LookupNeedsRawKey ==
  LookupCase =>
    IF alast.arg \notin DOMAIN alast.before.Keypairs
    THEN alast.err = "invalid permission" /\ alast.keys = NoKp
    ELSE LET k == alast.before.Keypairs[alast.arg]
         IN IF k.RawKey = <<>>
            THEN alast.err = "empty keypair" /\ alast.keys = NoKp
            ELSE alast.err = "nil" /\ alast.keys = KeysOf(k.ID)

LookupOnEncryptedSeen ==
  /\ LookupCase
  /\ alast.arg \in DOMAIN alast.before.Keypairs
  /\ alast.before.Keypairs[alast.arg].RawKey = <<>>
  /\ alast.before.Keypairs[alast.arg].Mac # <<>>
  /\ alast.err = "empty keypair"

----------------------------------------------------------------------------
(* Properties of the account store (specification SpecStore) *)

Versions(files) ==
  { files.live[n].ver : n \in DOMAIN files.live }
    \cup { files.backup[b].ver : b \in DOMAIN files.backup }

SaveCase == slast # NoKp /\ slast.op = "Save" /\ slast.err = "nil"

\* C5: a Save that finds a live file of the account adds exactly one backup
\* file, and every version that was in the store before the Save (live or
\* backup) is still in the store after it, also for saves within one second.
BackupOnOverwrite ==
  SaveCase =>
    /\ Versions(slast.before) \subseteq Versions(fs)
    /\ slast.name \in DOMAIN slast.before.live =>
         Cardinality(DOMAIN fs.backup) = Cardinality(DOMAIN slast.before.backup) + 1

LoadAfterSaveCase ==
  /\ slast # NoKp
  /\ slast.op = "Load"
  /\ slast.prev # NoKp
  /\ slast.prev.op = "Save"
  /\ slast.prev.err = "nil"
  /\ slast.prev.name = slast.name

\* C6: a Load that follows a Save of the same account name, whatever was
\* saved before, succeeds and returns an account equal to the saved one in
\* name and in every field of every key record.
PersistenceRoundTrip ==
  LoadAfterSaveCase => slast.err = "nil" /\ slast.acc = slast.prev.acc

PersistenceSeen ==
  /\ LoadAfterSaveCase
  /\ Len(saved) >= 2
  /\ DOMAIN slast.before.backup # {}
  /\ slast.acc = slast.prev.acc
  /\ \E r \in DOMAIN slast.acc.Keypairs :
       slast.acc.Keypairs[r].RawKey # <<>> /\ slast.acc.Keypairs[r].Mac = <<>>

----------------------------------------------------------------------------
(* Further properties of a key record (specification SpecKey) *)

\* C11: a successful Decrypt puts the record back into plaintext state:
\* IsEncrypted is false after it and an Encrypt that follows is accepted.
DecryptBackToPlain ==
  \A i \in Calls :
    Succeeded(i, "Decrypt") =>
      /\ ~KpIsEncrypted(hist[i].after)
      /\ (i < Len(hist) /\ hist[i + 1].op = "Encrypt") => hist[i + 1].err = "nil"

EncryptedCase(i) ==
  /\ Succeeded(i, "Encrypt")
  /\ ~KpIsEncrypted(Before(i))

\* C12: after a successful Encrypt on a plaintext record the record holds
\* the ciphertext of the raw key in encryptedKey, the full-length salt and
\* the mac over the ciphertext, all text-encoded, and rawKey is empty.
EncryptPostcondition ==
  \A i \in Calls :
    EncryptedCase(i) =>
      LET b == Before(i)
          a == hist[i].after
      IN /\ Len(DecodeBase58(a.Salt)) = SaltLen
         /\ a = SealedKeyPairInfo(b.ID, b.RawKey, b.KeyType, hist[i].arg,
                                  DecodeBase58(a.Salt))

MalformedSaltCase(i) ==
  /\ hist[i].op = "Decrypt"
  /\ KpIsEncrypted(Before(i))
  /\ Len(DecodeBase58(Before(i).Salt)) # SaltLen

\* C17: Decrypt on a record whose stored salt does not decode to the full
\* salt length returns a malformed-record error (not "wrong password", no
\* panic, no success) and leaves the record unchanged.
MalformedSaltRejected ==
  \A i \in Calls :
    MalformedSaltCase(i) =>
      /\ hist[i].err \notin { "nil", "wrong password", "panic" }
      /\ Unchanged(i)

----------------------------------------------------------------------------
(* Further properties of an account record (specification SpecAcct) *)

BatchDecryptFails ==
  /\ alast # NoKp
  /\ alast.op = "Decrypt"
  /\ alast.err # "nil"
  /\ AcctIsEncrypted(alast.before)

\* position in the visiting order of the first member whose Decrypt fails
FirstFailure(a, order, password) ==
  LET bad == { i \in DOMAIN order :
                 KpDecrypt(a.Keypairs[order[i]], password).err # "nil" }
  IN CHOOSE i \in bad : \A j \in bad : i <= j

\* C15: when the batch Decrypt fails on a member it returns that member's
\* error ("wrong password" or "not encrypted", no panic); the members
\* visited before it are as a successful single Decrypt leaves them, the
\* failing member and the members after it are as they were.
BatchDecryptNoRollback ==
  BatchDecryptFails =>
    LET a == alast.before
        o == alast.arg.order
        pw == alast.arg.pw
        f == FirstFailure(a, o, pw)
    IN /\ alast.err = KpDecrypt(a.Keypairs[o[f]], pw).err
       /\ alast.err \in { "wrong password", "not encrypted" }
       /\ DOMAIN acct.Keypairs = DOMAIN a.Keypairs
       /\ \A i \in DOMAIN o :
            acct.Keypairs[o[i]] =
              IF i < f THEN KpDecrypt(a.Keypairs[o[i]], pw).rec ELSE a.Keypairs[o[i]]

BatchDecryptPartSeen ==
  /\ BatchDecryptFails
  /\ \E r \in DOMAIN acct.Keypairs :
       /\ acct.Keypairs[r] # alast.before.Keypairs[r]
       /\ acct.Keypairs[r].RawKey # <<>>

BatchEncryptCase == alast # NoKp /\ alast.op = "Encrypt"

\* C20: the batch Encrypt either returns an error and changes no member, or
\* returns success with every member encrypted and without raw key; on an
\* empty account it succeeds and changes nothing.
BatchEncryptAllOrNothing ==
  BatchEncryptCase =>
    /\ \/ alast.err # "nil" /\ acct = alast.before
       \/ /\ alast.err = "nil"
          /\ acct.Name = alast.before.Name
          /\ DOMAIN acct.Keypairs = DOMAIN alast.before.Keypairs
          /\ \A r \in DOMAIN acct.Keypairs :
               KpIsEncrypted(acct.Keypairs[r]) /\ acct.Keypairs[r].RawKey = <<>>
    /\ DOMAIN alast.before.Keypairs = {} => alast.err = "nil" /\ acct = alast.before

BatchEncryptAllSeen ==
  /\ BatchEncryptCase
  /\ alast.err = "nil"
  /\ Cardinality(DOMAIN acct.Keypairs) = 2
  /\ \A r \in DOMAIN acct.Keypairs :
       alast.before.Keypairs[r].RawKey # <<>> /\ acct.Keypairs[r].Mac # <<>>

----------------------------------------------------------------------------
(* Further properties of the account store (specification SpecStore) *)

ListCase == slast # NoKp /\ slast.op = "List" /\ slast.before.dir

\* C13: a listing of an existing store directory returns no error and
\* exactly the decoded accounts of the files that decode, in directory
\* order; damaged files and the backup directory are left out.
ListSkipsCorrupt ==
  ListCase =>
    /\ slast.err = "nil"
    /\ Len(slast.acc) = Cardinality(Decodable(slast.before))
    /\ \A n \in Decodable(slast.before) :
         \E i \in DOMAIN slast.acc :
           slast.acc[i] = UnmarshalAccount(slast.before.live[n].data)
    /\ \A i, j \in DOMAIN slast.acc :
         i < j => slast.acc[i].Name # slast.acc[j].Name

ListSkipSeen ==
  /\ ListCase
  /\ slast.err = "nil"
  /\ Len(slast.acc) = 1
  /\ slast.acc[1].Name = "bob"
  /\ DOMAIN slast.before.backup # {}
  /\ "alice" \in DOMAIN slast.before.live
  /\ slast.before.live["alice"].data = Garbage

WriteFailedCase ==
  /\ slast # NoKp
  /\ slast.op = "Save"
  /\ slast.name \in DOMAIN slast.before.live
  /\ \/ slast.name \notin DOMAIN fs.live
     \/ fs.live[slast.name].ver = 0

\* C14: when Save has moved the existing file to the backup and the write
\* of the new file fails, Save returns an error and the previous version is
\* in the backup location.
WriteFailureSurfaced ==
  WriteFailedCase =>
    /\ slast.err # "nil"
    /\ \E b \in DOMAIN fs.backup :
         b[1] = slast.name /\ fs.backup[b] = slast.before.live[slast.name]

WriteFailureSeen ==
  /\ WriteFailedCase
  /\ slast.err = "write failed"
  /\ slast.before.live[slast.name].data # Garbage
  /\ Cardinality(DOMAIN fs.backup) = 1

EncryptedFields == { "encrypted_key", "salt", "mac" }

\* C16: in every blob a Save wrote, each key record has either a raw key
\* and none of the encrypted fields, or no raw key and all of encrypted
\* key, salt and mac.
PersistedEitherRawOrEncrypted ==
  fs # NoKp =>
    \A n \in Decodable(fs) :
      \A r \in DOMAIN fs.live[n].data.keypairs :
        LET present == DOMAIN fs.live[n].data.keypairs[r]
        IN \/ "raw_key" \in present /\ EncryptedFields \cap present = {}
           \/ "raw_key" \notin present /\ EncryptedFields \subseteq present

----------------------------------------------------------------------------
(* Properties of unsynchronised calls (specification SpecRace) *)

AllDone ==
  /\ race # NoKp
  /\ \A p \in Savers : race.saver[p].pc = "done"

\* the contents that were a complete live file at some time and are in no
\* file of the store now
Lost == IF race = NoKp THEN {} ELSE race.everLive \ StoredData(fs)

\* both SaveAccount calls renamed a file to the backup name of one second
SameSecond ==
  /\ \A p \in Savers : race.saver[p].pc \in {"create", "write", "done"}
  /\ \A p \in Savers : race.saver[p].err # "rename: no such file"
  /\ race.saver[1].now = race.saver[2].now

\* C18: two SaveAccount calls on one name interleaved at their file system
\* steps can lose a version (RaceLostSeen is reached); a version that was
\* the live file is missing from the store only when the two calls
\* overlapped or named their backups by the same second.
LossNeedsOverlap ==
  Lost # {} => race.overlap \/ SameSecond

RaceLostSeen ==
  /\ AllDone
  /\ race.overlap
  /\ Lost # {}
  /\ \A p \in Savers : race.saver[p].err = "nil"

LoadFailed ==
  /\ race # NoKp
  /\ race.loader.pc = "done"
  /\ race.loader.err # "nil"
  /\ race.loader.hadLive

\* C19: a LoadAccount of a name that had a live file fails when it runs
\* between the rename and the end of the write of a SaveAccount of that
\* name (LoadDuringSaveSeen is reached); it fails only then, or when two
\* overlapping writes have left a file that does not decode.
LoadFailsOnlyMidSave ==
  LoadFailed => race.loader.mid \/ race.mixed

LoadDuringSaveSeen ==
  /\ LoadFailed
  /\ race.loader.err = "account is not imported"
  /\ race.saver[1].pc = "done" /\ race.saver[1].err = "nil"
  /\ race.saver[2].pc = "idle"
  /\ RaceName \in Decodable(fs)

====
